---- MODULE Spec2Model ----
(***************************************************************************)
(* Model of the generation service of FashionAI Studio                     *)
(* (services/geminiService.ts, held in src/unnamed/part_004):              *)
(* retryOperation, generateFashionVideo and generateFashionImage.          *)
(*                                                                         *)
(* One call of an entry point is a sequential process; pc is its position. *)
(* Every await of the source is a step boundary.  The remote service, the  *)
(* FileReader and fetch are the environment: their answers are drawn from  *)
(* small sets with \E.                                                     *)
(*                                                                         *)
(* Text is modelled as a sequence of word tokens; String.includes is the   *)
(* contiguous-subsequence test on tokens.                                  *)
(***************************************************************************)
EXTENDS Integers, Sequences, FiniteSets, TLC

(***************************************************************************)
(* Bounds of the model (not program constants).                            *)
(***************************************************************************)
\* status queries the environment answers in one call before the model stops
MaxPolls == 3

\* asset slots, in canonical order, the user of App works with
MaxAppSlots == 2
\* values of the opaque progress metadata of an Operation: 0..MaxProgress
MaxProgress == 1

(***************************************************************************)
(* Program constants.                                                      *)
(***************************************************************************)
\* retryOperation defaults (create calls) and the download's arguments
DefaultRetries == 5
DefaultBaseDelay == 2000
DownloadRetries == 3
DownloadBaseDelay == 1000
\* wait between two status queries
PollInterval == 5000
\* Veo limit of reference images
MaxReferenceImages == 3

(***************************************************************************)
(* Text and errors.                                                        *)
(***************************************************************************)
\* String.prototype.includes on token sequences
Includes(msg, marker) ==
  \E i \in 1..(Len(msg) - Len(marker) + 1) :
     SubSeq(msg, i, i + Len(marker) - 1) = marker

\* an Error object: message (<<>> when absent or empty), status (0 when absent)
Err(msg, status) == [message |-> msg, status |-> status]

NoError == Err(<<>>, 0)

\* failures of the remote service by overload, rate limit or server fault
TransientRemoteErrors ==
  { Err(<<"The", "model", "is", "overloaded">>, 0),
    Err(<<"internal", "server", "issue">>, 0),
    Err(<<"429", "Too", "Many", "Requests">>, 0),
    Err(<<"got", "status:", "500">>, 0),
    Err(<<"503", "Service", "Unavailable">>, 0),
    Err(<<>>, 429),
    Err(<<"Service", "Unavailable">>, 503),
    Err(<<"Internal", "error">>, 500) }

\* the other failures of the remote service
FatalRemoteErrors ==
  { Err(<<"400", "Bad", "Request">>, 400),
    Err(<<"Requested", "entity", "was", "not", "found">>, 0),
    Err(<<"got", "status:", "404">>, 404) }

\* errors the remote generation service may answer a request with
RemoteErrors == TransientRemoteErrors \cup FatalRemoteErrors

\* HTTP statuses of overload, rate limit or server fault
TransientStatuses == {429, 500, 503}

\* what fetch itself rejects with when the network is down
NetworkError == Err(<<"Failed", "to", "fetch">>, 0)

\* HTTP statuses the media download may answer with
HttpStatuses == {200, 403, 404, 429, 500, 503}

\* Response.ok
ResponseOk(status) == status >= 200 /\ status <= 299

\* the error a FileReader failure rejects blobToBase64 with (a ProgressEvent:
\* no message, no status)
ReadError == Err(<<>>, 0)

(***************************************************************************)
(* retryOperation (part_004:37-69).                                        *)
(***************************************************************************)
\* mutation: every error is taken for a retryable one
isRetryable_always(error) == TRUE

isRetryable(error) ==
  \/ Includes(error.message, <<"overloaded">>)
  \/ Includes(error.message, <<"internal", "server", "issue">>)
  \/ Includes(error.message, <<"429">>)
  \/ Includes(error.message, <<"503">>)
  \/ Includes(error.message, <<"500">>)
  \/ error.status = 429
  \/ error.status = 503
  \/ error.status = 500

\* mutation: the last attempt is not recognised as the last
RetryGivesUp_never(error, i, retries) == ~isRetryable(error)

\* mutation: the last retry is given up one attempt early
RetryGivesUp_early(error, i, retries) == ~isRetryable(error) \/ i >= retries - 2

\* the condition of `throw error` inside the catch of attempt i
RetryGivesUp(error, i, retries) == ~isRetryable(error) \/ i = retries - 1

\* mutation: the delay grows linearly
BackoffDelay_linear(baseDelay, i) == baseDelay * (i + 1)

\* const delay = baseDelay * Math.pow(2, i)
BackoffDelay(baseDelay, i) == baseDelay * 2^i

\* the arguments of the three retryOperation call sites
RetriesOf(fn) == IF fn = "fetchVideo" THEN DownloadRetries ELSE DefaultRetries

BaseDelayOf(fn) == IF fn = "fetchVideo" THEN DownloadBaseDelay ELSE DefaultBaseDelay

(***************************************************************************)
(* Assets and encoding.                                                    *)
(***************************************************************************)
\* canonical priority order of the slots
SlotOrder == <<"top", "bottom", "shoes", "accessories">>

AssetTypes == {"top", "bottom", "shoes", "accessories"}

\* the File uploaded into a slot
FileOf(slot) == [name |-> slot, type |-> "image/png"]

\* FileReader.readAsDataURL, as the pieces around its comma
DataUrl(blob) == <<"data:image/png;base64", [bytes |-> blob.name]>>

\* blobToBase64: the part after the data-URL prefix
blobToBase64(blob) == DataUrl(blob)[2]

RECURSIVE FilterDefined(_, _)
\* [top, bottom, shoes, accessories].filter(f => f !== undefined), from slot k
FilterDefined(a, k) ==
  IF k > Len(SlotOrder) THEN <<>>
  ELSE (IF SlotOrder[k] \in a THEN <<FileOf(SlotOrder[k])>> ELSE <<>>)
       \o FilterDefined(a, k + 1)

orderedFiles(a) == FilterDefined(a, 1)

\* mutation: the reference images are not truncated
referenceFiles_all(files) == files

\* orderedFiles.slice(0, 3)
referenceFiles(files) ==
  SubSeq(files, 1, IF Len(files) < MaxReferenceImages THEN Len(files)
                   ELSE MaxReferenceImages)

AspectRatios == {"9:16", "16:9"}

\* one entry of the payload: { imageBytes, mimeType }
Encoding(file) == [imageBytes |-> blobToBase64(file), mimeType |-> file.type]

(***************************************************************************)
(* Requests and answers of the remote service.                             *)
(***************************************************************************)
\* mutation: the landscape ratio is forced on the single-reference call too
VideoRequest_landscape(enc, cfg, n) ==
  IF n = 1
  THEN [model |-> "veo-3.1-fast-generate-preview", image |-> <<enc[1]>>,
        referenceImages |-> <<>>, resolution |-> "720p",
        aspectRatio |-> "16:9"]
  ELSE [model |-> "veo-3.1-generate-preview", image |-> <<>>,
        referenceImages |-> enc, resolution |-> "720p",
        aspectRatio |-> "16:9"]

\* the argument of ai.models.generateVideos: n is orderedFiles.length
VideoRequest(enc, cfg, n) ==
  IF n = 1
  THEN [model |-> "veo-3.1-fast-generate-preview", image |-> <<enc[1]>>,
        referenceImages |-> <<>>, resolution |-> "720p",
        aspectRatio |-> cfg.aspectRatio]
  ELSE [model |-> "veo-3.1-generate-preview", image |-> <<>>,
        referenceImages |-> enc, resolution |-> "720p",
        aspectRatio |-> "16:9"]

\* the argument of ai.models.generateContent
ImageRequest(enc, cfg) ==
  [model |-> "gemini-3-pro-image-preview", image |-> <<>>,
   referenceImages |-> enc, resolution |-> "2K",
   aspectRatio |-> IF cfg.aspectRatio = "16:9" THEN "16:9" ELSE "9:16"]

NoRequest ==
  [model |-> "", image |-> <<>>, referenceImages |-> <<>>, resolution |-> "",
   aspectRatio |-> ""]

\* messages of the error payload of a failed job
ErrorPayloads ==
  { <<"Unsafe", "content">>,
    <<"Requested", "entity", "was", "not", "found">>,
    <<"error", "code", "404">> }

ResultUri == "https://video/1"

\* an Operation: error is <<>> or <<message>>, uri is "" when absent
Op(done, error, uri, metadata) ==
  [done |-> done, error |-> error, uri |-> uri, metadata |-> metadata]

NoOperation == Op(FALSE, <<>>, "", 0)

\* Operations the remote may answer a create or a refresh request with
RemoteOperations ==
  { Op(FALSE, <<>>, "", m) : m \in 0..MaxProgress }
  \cup { Op(TRUE, e, u, MaxProgress) :
            e \in {<<>>} \cup { <<p>> : p \in ErrorPayloads },
            u \in {"", ResultUri} }

\* an inline image part of a generateContent response
Inline(data, mime) == [inlineData |-> <<[data |-> [bytes |-> data], mimeType |-> mime]>>]

\* a text part
TextPart == [inlineData |-> <<>>]

\* a candidate; parts is <<>> when content or content.parts is missing
Candidate(parts) == [parts |-> parts]

\* no answer to generateContent yet
NoResponse == [candidates |-> <<>>]

\* answers to generateContent; candidates is <<>> when the field is missing
ImageResponses ==
  { [candidates |-> <<>>],
    [candidates |-> <<Candidate(<<>>)>>],
    [candidates |-> <<Candidate(<<TextPart>>)>>],
    [candidates |-> <<Candidate(<<TextPart, Inline("img1", "image/jpeg")>>)>>],
    [candidates |-> <<Candidate(<<>>),
                      Candidate(<<Inline("img1", ""), Inline("img2", "image/jpeg")>>)>>],
    [candidates |-> <<Candidate(<<TextPart>>),
                      Candidate(<<Inline("img2", "image/jpeg")>>)>>] }

RECURSIVE FirstInlineOfParts(_)
\* the first part of a candidate that carries inlineData: <<>> or <<inlineData>>
FirstInlineOfParts(parts) ==
  IF parts = <<>> THEN <<>>
  ELSE IF Head(parts).inlineData # <<>> THEN Head(parts).inlineData
  ELSE FirstInlineOfParts(Tail(parts))

\* mutation: only the first candidate is scanned
FirstInline_firstCandidate(candidates) ==
  IF candidates = <<>> THEN <<>>
  ELSE FirstInlineOfParts(Head(candidates).parts)

RECURSIVE FirstInline(_)
\* the scan of generateFashionImage over candidates and their parts
FirstInline(candidates) ==
  IF candidates = <<>> THEN <<>>
  ELSE IF FirstInlineOfParts(Head(candidates).parts) # <<>>
       THEN FirstInlineOfParts(Head(candidates).parts)
  ELSE FirstInline(Tail(candidates))

\* atob
atob(data) == data.bytes

\* URL.createObjectURL(blob): the handle wraps the blob
createObjectURL(blob) == [blob |-> <<blob>>]

NoHandle == [blob |-> <<>>]

(***************************************************************************)
(* Errors thrown by the entry points.                                      *)
(***************************************************************************)
ApiKeyNotFound == Err(<<"API", "Key", "not", "found.">>, 0)

NoAssets == Err(<<"Please", "upload", "at", "least", "one", "image.">>, 0)

ApiKeyExpired ==
  Err(<<"API", "Key", "session", "expired", "or", "invalid.", "Please",
        "re-select", "your", "key.">>, 0)

GenerationFailed(payload) ==
  Err(<<"Video", "generation", "failed:">> \o payload, 0)

NoVideoUri == Err(<<"No", "video", "URI", "returned.">>, 0)

\* mutation: the message of the download error leaves the status out
DownloadFailed_noStatus(status) == Err(<<"Download", "failed">>, 0)

DownloadFailed(status) == Err(<<"Download", "failed:", ToString(status)>>, 0)

NoImageData == Err(<<"No", "image", "data", "found", "in", "response.">>, 0)

MaxRetriesFailed == Err(<<"Failed", "after", "max", "retries">>, 0)

\* mutation: the polling catch continues after any failure
PollTolerates_all(error) == TRUE

\* the condition of the polling catch to continue with the next tick
PollTolerates(error) ==
  \/ Includes(error.message, <<"overloaded">>)
  \/ Includes(error.message, <<"internal", "server", "issue">>)
  \/ Includes(error.message, <<"500">>)
  \/ Includes(error.message, <<"503">>)

\* mutation: the outer catch rethrows what it caught
VideoCatch_rethrow(error) == error

\* the outer catch of generateFashionVideo: what it throws for a caught error
VideoCatch(error) ==
  IF \/ Includes(error.message, <<"Requested", "entity", "was", "not", "found">>)
     \/ Includes(error.message, <<"404">>)
  THEN ApiKeyExpired
  ELSE error

\* the catch of generateFashionImage rethrows what it caught
ImageCatch(error) == error

(***************************************************************************)
(* The prompt (part_004:72-115).  A text is a sequence of words; a full    *)
(* stop that follows an interpolated value is a word of its own.           *)
(***************************************************************************)
MODEL_DESCRIPTIONS ==
  ("sofia" :> <<"a", "Caucasian", "female", "model", "with", "blonde", "hair">>)
  @@ ("li" :> <<"an", "East", "Asian", "female", "model", "with", "black",
                "straight", "hair">>)
  @@ ("zara" :> <<"a", "Black", "female", "model", "with", "curly", "hair">>)
  @@ ("david" :> <<"a", "Caucasian", "male", "model", "with", "short",
                   "brown", "hair">>)
  @@ ("ken" :> <<"an", "Asian", "male", "model", "with", "stylish", "short",
                 "hair">>)
  @@ ("marcus" :> <<"a", "Black", "male", "model", "with", "athletic",
                    "build">>)

BODY_TYPE_PROMPTS ==
  ("slim" :> <<"slender", "and", "thin">>)
  @@ ("athletic" :> <<"muscular", "and", "athletic">>)
  @@ ("curvy" :> <<"curvy", "and", "voluptuous">>)
  @@ ("plus" :> <<"plus-size", "and", "full-figured">>)
  @@ ("tall" :> <<"very", "tall", "and", "statuesque">>)
  @@ ("petite" :> <<"petite", "and", "short">>)

\* mutation: more than one asset is taken for any number of assets
buildCommonPrompt_complete(cfg, n) ==
  <<"Fashion", "content.">>
  \o (IF cfg.modelId \in DOMAIN MODEL_DESCRIPTIONS
      THEN MODEL_DESCRIPTIONS[cfg.modelId]
      ELSE <<"a", cfg.gender, "model">>)
  \o <<"with", "a">>
  \o (IF cfg.bodyType \in DOMAIN BODY_TYPE_PROMPTS
      THEN BODY_TYPE_PROMPTS[cfg.bodyType]
      ELSE <<"slender">>)
  \o <<"body", "type", "in", "a", cfg.style, "setting.">>
  \o <<"The", "model", "is", "wearing", "the", "complete", "outfit",
       "composed", "of", "the", "provided", "clothing", "items", "(Top,",
       "Bottom,", "Shoes,", "and/or", "Accessories).">>
  \o (IF cfg.materialDesc # <<>>
      THEN <<"The", "clothing", "is", "made", "of">> \o cfg.materialDesc
           \o <<".", "Accurately", "render", "the", "physical", "properties,",
                "weight,", "and", "texture", "of", "this", "material.">>
      ELSE <<"Preserve", "the", "exact", "fabric", "texture,", "material",
             "weight,", "and", "reflectivity", "of", "the", "original",
             "clothing.">>)
  \o <<"Camera", "Angle:">> \o cfg.cameraAngle
  \o <<".", "CRITICAL:", "Maintain", "high", "fidelity", "to", "the",
       "original", "clothing's", "texture", "and", "patterns.", "Lighting",
       "should", "highlight", "the", "fabric", "details.", "High",
       "resolution,", "photorealistic,", "highly", "detailed", "texture.">>

\* buildCommonPrompt(config, assetCount)
buildCommonPrompt(cfg, n) ==
  LET baseModelDesc ==
        IF cfg.modelId \in DOMAIN MODEL_DESCRIPTIONS
        THEN MODEL_DESCRIPTIONS[cfg.modelId]
        ELSE <<"a", cfg.gender, "model">>
      bodyAdjective ==
        IF cfg.bodyType \in DOMAIN BODY_TYPE_PROMPTS
        THEN BODY_TYPE_PROMPTS[cfg.bodyType]
        ELSE <<"slender">>
      fullModelDesc ==
        baseModelDesc \o <<"with", "a">> \o bodyAdjective \o <<"body", "type">>
      materialInstruction ==
        IF cfg.materialDesc # <<>>
        THEN <<"The", "clothing", "is", "made", "of">> \o cfg.materialDesc
             \o <<".", "Accurately", "render", "the", "physical",
                  "properties,", "weight,", "and", "texture", "of", "this",
                  "material.">>
        ELSE <<"Preserve", "the", "exact", "fabric", "texture,", "material",
               "weight,", "and", "reflectivity", "of", "the", "original",
               "clothing.">>
  IN  <<"Fashion", "content.">> \o fullModelDesc
      \o <<"in", "a", cfg.style, "setting.">>
      \o (IF n > 1
          THEN <<"The", "model", "is", "wearing", "the", "complete", "outfit",
                 "composed", "of", "the", "provided", "clothing", "items",
                 "(Top,", "Bottom,", "Shoes,", "and/or", "Accessories).">>
          ELSE <<"The", "model", "is", "wearing", "the", "exact", "outfit",
                 "shown", "in", "the", "input", "image.">>)
      \o materialInstruction
      \o <<"Camera", "Angle:">> \o cfg.cameraAngle
      \o <<".", "CRITICAL:", "Maintain", "high", "fidelity", "to", "the",
           "original", "clothing's", "texture", "and", "patterns.",
           "Lighting", "should", "highlight", "the", "fabric", "details.",
           "High", "resolution,", "photorealistic,", "highly", "detailed",
           "texture.">>

\* fullPrompt of the entry point fn (part_004:132, 240)
fullPrompt(fn, cfg, n) ==
  buildCommonPrompt(cfg, n)
  \o (IF fn = "video" THEN <<"Generate", "a", "cinematic", "video.">>
      ELSE <<"Generate", "a", "high-quality", "fashion", "photograph.">>)

\* the config App starts with (App.tsx:18-26): no mode, no bodyType
InitialConfig ==
  [mode |-> "", gender |-> "female", modelId |-> "sofia", bodyType |-> "",
   cameraAngle |-> <<"Tracking", "shot">>, style |-> "runway",
   aspectRatio |-> "9:16", materialDesc |-> <<>>]

(***************************************************************************)
(* State.                                                                  *)
(***************************************************************************)
VARIABLES
  apiKey,      \* process.env.API_KEY: "" when no credential is configured
  assets,      \* the populated slots of UploadedAssets
  config,      \* GenerationConfig
  entry,       \* the entry point called: "", "video" or "image"
  pc,          \* position of the call
  assetCount,  \* orderedFiles.length / files.length
  pending,     \* files still to encode
  encoded,     \* the payload entries built so far
  rFn,         \* the work the running retryOperation wraps
  rIdx,        \* retryOperation's loop index i
  rLog,        \* outcome of each invocation of fn by this retryOperation
  rWaits,      \* the delays this retryOperation has slept
  rError,      \* the error caught by retryOperation's current catch block
  rState,      \* "", "running", "returned" or "threw"
  request,     \* the last create request issued
  nCreate,     \* create requests issued
  operation,   \* the Operation held by the polling loop
  answered,    \* the last Operation the remote service answered with
  pollWaits,   \* the delays the polling loop has slept
  nPoll,       \* status queries issued
  pollLog,     \* outcome of each status query
  nFetch,      \* media downloads issued
  imageResponse, \* the last answer to generateContent
  thrown,      \* the error in flight (pc = "catch") or rejected with
  raised,      \* the error as it was thrown, before any catch clause
  failedAt,    \* the step that threw
  handle,      \* the media handle the call resolved with
  prompt,      \* fullPrompt of the call
  status,      \* App: AppStatus
  videoUrl,    \* App: the media handle shown, <<>> for null
  errorMsg,    \* App: the message shown, <<>> for null
  hasApiKey,   \* App: a key is taken to be selected
  appAssets,   \* App: the populated slots of the assets state
  appConfig,   \* App: the config state
  keyPrompt,   \* App: a promptSelectApiKey() has not settled yet
  inFlight     \* App: generation calls made and not yet settled

vars ==
  <<apiKey, assets, config, entry, pc, assetCount, pending, encoded, rFn, rIdx,
    rLog, rWaits, rError, rState, request, nCreate, operation, answered,
    pollWaits, nPoll, pollLog, nFetch, imageResponse, thrown, raised,
    failedAt, handle, prompt, status, videoUrl, errorMsg, hasApiKey,
    appAssets, appConfig, keyPrompt, inFlight>>

inputVars == <<apiKey, assets, config>>

appVars ==
  <<status, videoUrl, errorMsg, hasApiKey, appAssets, appConfig, keyPrompt,
    inFlight>>

retryVars == <<rFn, rIdx, rLog, rWaits, rError, rState>>

remoteVars == <<request, nCreate, operation, answered, nPoll, pollLog, nFetch>>

\* no call has been made
NoCall ==
  /\ entry = ""
  /\ pc = "idle"
  /\ assetCount = 0
  /\ pending = <<>>
  /\ encoded = <<>>
  /\ rFn = ""
  /\ rIdx = 0
  /\ rLog = <<>>
  /\ rWaits = <<>>
  /\ rError = NoError
  /\ rState = ""
  /\ request = NoRequest
  /\ nCreate = 0
  /\ operation = NoOperation
  /\ answered = NoOperation
  /\ pollWaits = <<>>
  /\ nPoll = 0
  /\ pollLog = <<>>
  /\ nFetch = 0
  /\ imageResponse = NoResponse
  /\ thrown = NoError
  /\ raised = NoError
  /\ failedAt = ""
  /\ handle = NoHandle
  /\ prompt = <<>>

\* the state of App at mount (App.tsx:11-26)
AppMounted ==
  /\ status = "idle"
  /\ videoUrl = <<>>
  /\ errorMsg = <<>>
  /\ hasApiKey = FALSE
  /\ appAssets = {}
  /\ appConfig = InitialConfig
  /\ keyPrompt = FALSE
  /\ inFlight = 0

\* one call of an entry point of the service, for any credential and assets
Init ==
  /\ apiKey \in {"", "KEY"}
  /\ assets \in SUBSET AssetTypes
  /\ config \in {[InitialConfig EXCEPT !.aspectRatio = a] : a \in AspectRatios}
  /\ NoCall
  /\ AppMounted

(***************************************************************************)
(* Steps shared by the entry points.                                       *)
(***************************************************************************)
\* a throw outside any try block: the call rejects with the error
Reject(error, step) ==
  /\ pc' = "rejected"
  /\ thrown' = error
  /\ raised' = error
  /\ failedAt' = step

\* a throw inside the try block: control goes to the catch clause
Throw(error, step) ==
  /\ pc' = "catch"
  /\ thrown' = error
  /\ raised' = error
  /\ failedAt' = step

\* retryOperation(fn, ...) is entered: i = 0, fn is about to be invoked
StartRetry(fn) ==
  /\ pc' = "invoke"
  /\ rFn' = fn
  /\ rIdx' = 0
  /\ rLog' = <<>>
  /\ rWaits' = <<>>
  /\ rError' = NoError
  /\ rState' = "running"

\* the catch of retryOperation's attempt i, fn having thrown error
RetryFail(error, tag, step) ==
  /\ rLog' = Append(rLog, tag)
  /\ rError' = error
  /\ UNCHANGED <<rFn, rIdx, rWaits>>
  /\ IF RetryGivesUp(error, rIdx, RetriesOf(rFn))
     THEN Throw(error, step) /\ rState' = "threw"
     ELSE pc' = "backoff" /\ UNCHANGED <<rState, thrown, raised, failedAt>>

\* `return await fn()` of retryOperation, fn having fulfilled
RetryReturn ==
  /\ rLog' = Append(rLog, "ok")
  /\ rState' = "returned"
  /\ UNCHANGED <<rFn, rIdx, rWaits, rError>>

\* mutation: the check for an empty list of files is missing
Enter_unchecked(fn, cfg, files, toEncode) ==
  /\ entry' = fn
  /\ IF apiKey = ""
     THEN Reject(ApiKeyNotFound, "credential")
          /\ UNCHANGED <<assetCount, pending, retryVars, prompt>>
     ELSE /\ assetCount' = Len(files)
          /\ pending' = toEncode
          /\ prompt' = fullPrompt(fn, cfg, Len(files))
          /\ UNCHANGED <<thrown, raised, failedAt>>
          /\ IF toEncode = <<>>
             THEN StartRetry(IF fn = "video" THEN "generateVideos"
                             ELSE "generateContent")
             ELSE pc' = "encode" /\ UNCHANGED retryVars
  /\ UNCHANGED <<pollWaits, imageResponse, encoded, remoteVars, handle>>

\* mutation: the files are checked before the credential
Enter_assetsFirst(fn, cfg, files, toEncode) ==
  /\ entry' = fn
  /\ IF Len(files) = 0
     THEN Reject(NoAssets, "assets")
          /\ UNCHANGED <<assetCount, pending, prompt>>
     ELSE IF apiKey = ""
     THEN Reject(ApiKeyNotFound, "credential")
          /\ UNCHANGED <<assetCount, pending, prompt>>
     ELSE /\ pc' = "encode"
          /\ assetCount' = Len(files)
          /\ pending' = toEncode
          /\ prompt' = fullPrompt(fn, cfg, Len(files))
          /\ UNCHANGED <<thrown, raised, failedAt>>
  /\ UNCHANGED <<pollWaits, imageResponse, encoded, retryVars, remoteVars,
                 handle>>

\* the guards at the head of both entry points, up to the first await
Enter(fn, cfg, files, toEncode) ==
  /\ entry' = fn
  /\ IF apiKey = ""
     THEN Reject(ApiKeyNotFound, "credential")
          /\ UNCHANGED <<assetCount, pending, prompt>>
     ELSE IF Len(files) = 0
     THEN Reject(NoAssets, "assets")
          /\ UNCHANGED <<assetCount, pending, prompt>>
     ELSE /\ pc' = "encode"
          /\ assetCount' = Len(files)
          /\ pending' = toEncode
          /\ prompt' = fullPrompt(fn, cfg, Len(files))
          /\ UNCHANGED <<thrown, raised, failedAt>>
  /\ UNCHANGED <<pollWaits, imageResponse, encoded, retryVars, remoteVars,
                 handle>>

\* generateFashionVideo is called (part_004:117-141, 160-164)
CallVideo ==
  /\ pc = "idle"
  /\ Enter("video", config, orderedFiles(assets),
           IF Len(orderedFiles(assets)) = 1 THEN orderedFiles(assets)
           ELSE referenceFiles(orderedFiles(assets)))
  /\ UNCHANGED <<appVars, inputVars>>

\* generateFashionImage is called (part_004:228-247)
CallImage ==
  /\ pc = "idle"
  /\ Enter("image", config, orderedFiles(assets), orderedFiles(assets))
  /\ UNCHANGED <<appVars, inputVars>>

\* mutation: an asset that cannot be read is left out and the call goes on
Encode_skipsUnreadable ==
  /\ pc = "encode"
  /\ \/ encoded' = Append(encoded, Encoding(Head(pending)))
     \/ UNCHANGED encoded
  /\ pending' = Tail(pending)
  /\ IF Tail(pending) = <<>>
     THEN StartRetry(IF entry = "video" THEN "generateVideos"
                     ELSE "generateContent")
     ELSE UNCHANGED <<pc, retryVars>>
  /\ UNCHANGED <<thrown, raised, failedAt>>
  /\ UNCHANGED <<appVars, inputVars, prompt, pollWaits, imageResponse, entry,
                 assetCount, remoteVars, handle>>

\* await blobToBase64(file) settles; after the last one the create call is
\* handed to retryOperation
Encode ==
  /\ pc = "encode"
  /\ \/ /\ encoded' = Append(encoded, Encoding(Head(pending)))
        /\ pending' = Tail(pending)
        /\ IF Tail(pending) = <<>>
           THEN StartRetry(IF entry = "video" THEN "generateVideos"
                           ELSE "generateContent")
           ELSE UNCHANGED <<pc, retryVars>>
        /\ UNCHANGED <<thrown, raised, failedAt>>
     \/ /\ IF entry = "video" THEN Throw(ReadError, "encode")
           ELSE Reject(ReadError, "encode")
        /\ UNCHANGED <<pending, encoded, retryVars>>
  /\ UNCHANGED <<appVars, inputVars, prompt, pollWaits, imageResponse, entry,
                 assetCount, remoteVars, handle>>

\* await sleep(delay) of retryOperation ends; the loop goes to attempt i + 1
Backoff ==
  /\ pc = "backoff"
  /\ rWaits' = Append(rWaits, BackoffDelay(BaseDelayOf(rFn), rIdx))
  /\ rIdx' = rIdx + 1
  /\ rError' = NoError
  /\ IF rIdx + 1 < RetriesOf(rFn)
     THEN pc' = "invoke" /\ UNCHANGED <<rState, thrown, raised, failedAt>>
     ELSE Throw(MaxRetriesFailed, "retry") /\ rState' = "threw"
  /\ UNCHANGED <<appVars, inputVars, prompt, pollWaits, imageResponse, entry,
                 assetCount, pending, encoded, rFn, rLog, remoteVars, handle>>

(***************************************************************************)
(* generateFashionVideo.                                                   *)
(***************************************************************************)
\* the tag the logs give a failure of the remote service
RemoteTag(error) == IF error \in TransientRemoteErrors THEN "transient" ELSE "fatal"

\* the tag the log gives a download answered with a non-2xx status
StatusTag(code) ==
  IF code \in TransientStatuses THEN "transient" ELSE "fatal"

\* mutation: the loop is entered whatever the create call answered
InvokeGenerateVideos_pollsAnyway ==
  /\ pc = "invoke"
  /\ rFn = "generateVideos"
  /\ request' = VideoRequest(encoded, config, assetCount)
  /\ nCreate' = nCreate + 1
  /\ \/ \E op \in RemoteOperations :
          /\ answered' = op
          /\ operation' = op
          /\ RetryReturn
          /\ pc' = "sleep"
          /\ UNCHANGED <<thrown, raised, failedAt>>
     \/ \E error \in RemoteErrors :
          /\ RetryFail(error, RemoteTag(error), "create")
          /\ UNCHANGED <<operation, answered>>
  /\ UNCHANGED <<appVars, inputVars, prompt, pollWaits, imageResponse, entry,
                 assetCount, pending, encoded, nPoll, pollLog, nFetch, handle>>

\* one invocation of () => ai.models.generateVideos(...) settles
\* (part_004:143-155, 174-183); on success the loop condition is evaluated
InvokeGenerateVideos ==
  /\ pc = "invoke"
  /\ rFn = "generateVideos"
  /\ request' = VideoRequest(encoded, config, assetCount)
  /\ nCreate' = nCreate + 1
  /\ \/ \E op \in RemoteOperations :
          /\ answered' = op
          /\ operation' = op
          /\ RetryReturn
          /\ pc' = IF op.done THEN "done" ELSE "sleep"
          /\ UNCHANGED <<thrown, raised, failedAt>>
     \/ \E error \in RemoteErrors :
          /\ RetryFail(error, RemoteTag(error), "create")
          /\ UNCHANGED <<operation, answered>>
  /\ UNCHANGED <<appVars, inputVars, prompt, pollWaits, imageResponse, entry,
                 assetCount, pending, encoded, nPoll, pollLog, nFetch, handle>>

\* await sleep(5000) of the polling loop ends
Sleep ==
  /\ pc = "sleep"
  /\ pc' = "refresh"
  /\ pollWaits' = Append(pollWaits, PollInterval)
  /\ UNCHANGED <<appVars, inputVars, prompt, imageResponse, entry, assetCount,
                 pending, encoded, retryVars, remoteVars, thrown, raised,
                 failedAt, handle>>

\* ai.operations.getVideosOperation settles (part_004:191-202)
Refresh ==
  /\ pc = "refresh"
  /\ nPoll < MaxPolls
  /\ nPoll' = nPoll + 1
  /\ \/ \E op \in RemoteOperations :
          /\ answered' = op
          /\ operation' = op
          /\ pollLog' = Append(pollLog, IF op.done THEN "done" ELSE "notdone")
          /\ pc' = IF op.done THEN "done" ELSE "sleep"
          /\ UNCHANGED <<thrown, raised, failedAt>>
     \/ \E error \in RemoteErrors :
          /\ pollLog' = Append(pollLog, RemoteTag(error))
          /\ UNCHANGED <<operation, answered>>
          /\ IF PollTolerates(error)
             THEN pc' = "sleep" /\ UNCHANGED <<thrown, raised, failedAt>>
             ELSE Throw(error, "poll")
  /\ UNCHANGED <<appVars, inputVars, prompt, pollWaits, imageResponse, entry,
                 assetCount, pending, encoded, retryVars, request, nCreate,
                 nFetch, handle>>

\* mutation: the download is started whether or not there is a result URI
Inspect_fetchesAnyway ==
  /\ pc = "done"
  /\ IF operation.error # <<>>
     THEN Throw(GenerationFailed(operation.error[1]), "job")
          /\ UNCHANGED retryVars
     ELSE StartRetry("fetchVideo") /\ UNCHANGED <<thrown, raised, failedAt>>
  /\ UNCHANGED <<appVars, inputVars, prompt, pollWaits, imageResponse, entry,
                 assetCount, pending, encoded, remoteVars, handle>>

\* mutation: the error payload is looked at only when no result URI came
Inspect_uriFirst ==
  /\ pc = "done"
  /\ IF operation.uri # ""
     THEN StartRetry("fetchVideo") /\ UNCHANGED <<thrown, raised, failedAt>>
     ELSE IF operation.error # <<>>
     THEN Throw(GenerationFailed(operation.error[1]), "job")
          /\ UNCHANGED retryVars
     ELSE Throw(NoVideoUri, "uri") /\ UNCHANGED retryVars
  /\ UNCHANGED <<appVars, inputVars, prompt, pollWaits, imageResponse, entry,
                 assetCount, pending, encoded, remoteVars, handle>>

\* the loop has ended: error payload, result URI, start of the download
\* (part_004:204-215)
Inspect ==
  /\ pc = "done"
  /\ IF operation.error # <<>>
     THEN Throw(GenerationFailed(operation.error[1]), "job")
          /\ UNCHANGED retryVars
     ELSE IF operation.uri = ""
     THEN Throw(NoVideoUri, "uri") /\ UNCHANGED retryVars
     ELSE StartRetry("fetchVideo") /\ UNCHANGED <<thrown, raised, failedAt>>
  /\ UNCHANGED <<appVars, inputVars, prompt, pollWaits, imageResponse, entry,
                 assetCount, pending, encoded, remoteVars, handle>>

\* one invocation of fetchVideo settles (part_004:210-216)
InvokeFetchVideo ==
  /\ pc = "invoke"
  /\ rFn = "fetchVideo"
  /\ nFetch' = nFetch + 1
  /\ \/ \E code \in HttpStatuses :
          IF ResponseOk(code)
          THEN /\ RetryReturn
               /\ handle' = createObjectURL([media |-> "video", bytes |-> operation.uri])
               /\ pc' = "resolved"
               /\ UNCHANGED <<thrown, raised, failedAt>>
          ELSE /\ RetryFail(DownloadFailed(code), StatusTag(code), "fetch")
               /\ UNCHANGED handle
     \/ /\ RetryFail(NetworkError, "network", "fetch")
        /\ UNCHANGED handle
  /\ UNCHANGED <<appVars, inputVars, prompt, pollWaits, imageResponse, entry,
                 assetCount, pending, encoded, request, nCreate, operation,
                 answered, nPoll, pollLog>>

(***************************************************************************)
(* generateFashionImage.                                                   *)
(***************************************************************************)
\* one invocation of () => ai.models.generateContent(...) settles, and on
\* success the response is scanned (part_004:258-291)
InvokeGenerateContent ==
  /\ pc = "invoke"
  /\ rFn = "generateContent"
  /\ request' = ImageRequest(encoded, config)
  /\ nCreate' = nCreate + 1
  /\ \/ \E response \in ImageResponses :
          /\ imageResponse' = response
          /\ RetryReturn
          /\ IF FirstInline(response.candidates) # <<>>
             THEN LET inlineData == FirstInline(response.candidates)[1] IN
                  /\ handle' = createObjectURL(
                       [media |-> IF inlineData.mimeType = "" THEN "image/png"
                                  ELSE inlineData.mimeType,
                        bytes |-> atob(inlineData.data)])
                  /\ pc' = "resolved"
                  /\ UNCHANGED <<thrown, raised, failedAt>>
             ELSE Throw(NoImageData, "response") /\ UNCHANGED handle
     \/ \E error \in RemoteErrors :
          /\ RetryFail(error, RemoteTag(error), "create")
          /\ UNCHANGED <<handle, imageResponse>>
  /\ UNCHANGED <<appVars, inputVars, prompt, pollWaits, entry, assetCount,
                 pending, encoded, operation, answered, nPoll, pollLog,
                 nFetch>>

\* the catch clause of the entry point (part_004:218-224, 293-296)
Catch ==
  /\ pc = "catch"
  /\ pc' = "rejected"
  /\ thrown' = IF entry = "video" THEN VideoCatch(thrown) ELSE ImageCatch(thrown)
  /\ UNCHANGED <<appVars, inputVars, prompt, pollWaits, imageResponse, entry,
                 assetCount, pending, encoded, retryVars, remoteVars, raised,
                 failedAt, handle>>

Next ==
  \/ CallVideo
  \/ CallImage
  \/ Encode
  \/ Backoff
  \/ InvokeGenerateVideos
  \/ Sleep
  \/ Refresh
  \/ Inspect
  \/ InvokeFetchVideo
  \/ InvokeGenerateContent
  \/ Catch

Spec == Init /\ [][Next]_vars

(***************************************************************************)
(* The prompt of a call, for every config the types admit.                 *)
(***************************************************************************)
Genders == {"female", "male"}

\* the ids of the lookup table and one it does not hold
ModelIds == DOMAIN MODEL_DESCRIPTIONS \cup {"custom"}

\* the tags of the lookup table, one it does not hold, and "" for none
BodyTypes == DOMAIN BODY_TYPE_PROMPTS \cup {"average", ""}

\* the material description: empty, or some words
MaterialDescs == {<<>>, <<"red", "silk", "satin">>}

PromptConfigs ==
  { [InitialConfig EXCEPT !.gender = g, !.modelId = m, !.bodyType = b,
                          !.materialDesc = d] :
      g \in Genders, m \in ModelIds, b \in BodyTypes, d \in MaterialDescs }

InitPrompt ==
  /\ apiKey = "KEY"
  /\ assets \in SUBSET AssetTypes
  /\ config \in PromptConfigs
  /\ NoCall
  /\ AppMounted

\* the entry points up to the first await: fullPrompt has been built
NextPrompt ==
  \/ CallVideo
  \/ CallImage

SpecPrompt == InitPrompt /\ [][NextPrompt]_vars

(***************************************************************************)
(* App (App.tsx:9-199) with ConfigPanel (App.tsx:200-485).  A setState     *)
(* call is an assignment; the service call App awaits is the call modelled *)
(* above, made with the assets and config of the render that was clicked.  *)
(***************************************************************************)
\* the slots the user fills and clears
AppSlots == {SlotOrder[i] : i \in 1..MaxAppSlots}

\* const isProcessing = status === 'uploading' || status === 'generating'
isProcessing == status \in {"uploading", "generating"}

\* the aspect ratio App hands to the result preview (App.tsx:96-99)
effectiveAspectRatio(slots, cfg) ==
  IF Cardinality(slots) > 1 THEN "16:9" ELSE cfg.aspectRatio

\* const hasAssets = Object.keys(assets).length > 0
hasAssets == Cardinality(appAssets) > 0

\* MODEL_CHARACTERS.find(m => m.gender === value).id
FirstModelOf(gender) == IF gender = "female" THEN "sofia" ELSE "david"

\* mutation: a change of gender leaves modelId as it is
updateConfig_keepsModel(cfg, key, value) == [cfg EXCEPT ![key] = value]

\* ConfigPanel.updateConfig(key, value): the config handed to onChange
updateConfig(cfg, key, value) ==
  IF key = "gender" /\ value # cfg.gender
  THEN [cfg EXCEPT !.gender = value, !.modelId = FirstModelOf(value)]
  ELSE [cfg EXCEPT ![key] = value]

\* the control of ConfigPanel the user operates: the mode switcher
ConfigChoices == {<<"mode", "video">>, <<"mode", "image">>}

\* error.message || "<default message>"
DefaultErrorMsg == <<"generation", "error">>

\* handleAssetChange(type, file): a file is put into an empty slot, or the
\* file of a slot is taken out (file === null)
HandleAssetChange ==
  /\ status # "uploading"
  /\ \E type \in AppSlots, present \in BOOLEAN :
       /\ present # (type \in appAssets)
       /\ appAssets' = IF present THEN appAssets \cup {type}
                       ELSE appAssets \ {type}
  /\ UNCHANGED <<status, videoUrl, errorMsg, hasApiKey, appConfig, keyPrompt,
                 inFlight>>
  /\ UNCHANGED <<inputVars, prompt, entry, pc, assetCount, pending, encoded,
                 retryVars, remoteVars, pollWaits, imageResponse, thrown,
                 raised, failedAt, handle>>

\* a control of ConfigPanel is operated (they are disabled while processing)
UpdateConfig ==
  /\ ~isProcessing
  /\ \E choice \in ConfigChoices :
       appConfig' = updateConfig(appConfig, choice[1], choice[2])
  /\ UNCHANGED <<status, videoUrl, errorMsg, hasApiKey, appAssets, keyPrompt,
                 inFlight>>
  /\ UNCHANGED <<inputVars, prompt, entry, pc, assetCount, pending, encoded,
                 retryVars, remoteVars, pollWaits, imageResponse, thrown,
                 raised, failedAt, handle>>

\* the header button is clicked: handleKeySelection awaits the prompt
HandleKeySelection ==
  /\ status # "uploading"
  /\ ~hasApiKey
  /\ keyPrompt' = TRUE
  /\ UNCHANGED <<status, videoUrl, errorMsg, hasApiKey, appAssets, appConfig,
                 inFlight>>
  /\ UNCHANGED <<inputVars, prompt, entry, pc, assetCount, pending, encoded,
                 retryVars, remoteVars, pollWaits, imageResponse, thrown,
                 raised, failedAt, handle>>

\* promptSelectApiKey() settles: setHasApiKey(true), or the rejection is
\* logged
KeyPromptSettles ==
  /\ status # "uploading"
  /\ keyPrompt
  /\ keyPrompt' = FALSE
  /\ \/ hasApiKey' = TRUE
     \/ UNCHANGED hasApiKey
  /\ UNCHANGED <<status, videoUrl, errorMsg, appAssets, appConfig, inFlight>>
  /\ UNCHANGED <<inputVars, prompt, entry, pc, assetCount, pending, encoded,
                 retryVars, remoteVars, pollWaits, imageResponse, thrown,
                 raised, failedAt, handle>>

\* the locals of a call that is about to be made
FreshCall ==
  /\ entry' = ""
  /\ pc' = "idle"
  /\ assetCount' = 0
  /\ pending' = <<>>
  /\ encoded' = <<>>
  /\ rFn' = ""
  /\ rIdx' = 0
  /\ rLog' = <<>>
  /\ rWaits' = <<>>
  /\ rError' = NoError
  /\ rState' = ""
  /\ request' = NoRequest
  /\ nCreate' = 0
  /\ operation' = NoOperation
  /\ answered' = NoOperation
  /\ pollWaits' = <<>>
  /\ nPoll' = 0
  /\ pollLog' = <<>>
  /\ nFetch' = 0
  /\ imageResponse' = NoResponse
  /\ thrown' = NoError
  /\ raised' = NoError
  /\ failedAt' = ""
  /\ handle' = NoHandle
  /\ prompt' = <<>>

\* mutation: handleGenerate sets hasApiKey without waiting for the prompt
HandleGenerate_keyAtOnce ==
  /\ hasAssets /\ ~isProcessing
  /\ IF ~hasApiKey
     THEN /\ keyPrompt' = TRUE
          /\ hasApiKey' = TRUE
          /\ UNCHANGED <<status, videoUrl, errorMsg, appAssets, appConfig,
                         inFlight>>
          /\ UNCHANGED <<inputVars, prompt, entry, pc, assetCount, pending,
                         encoded, retryVars, remoteVars, pollWaits,
                         imageResponse, thrown, raised, failedAt, handle>>
     ELSE /\ status' = "uploading"
          /\ errorMsg' = <<>>
          /\ videoUrl' = <<>>
          /\ FreshCall
          /\ UNCHANGED <<hasApiKey, appAssets, appConfig, keyPrompt,
                         inFlight>>
          /\ UNCHANGED inputVars

\* mutation: handleGenerate leaves the earlier message and result in place
HandleGenerate_keepsOutcome ==
  /\ hasAssets /\ ~isProcessing
  /\ IF ~hasApiKey
     THEN /\ keyPrompt' = TRUE
          /\ UNCHANGED <<status, videoUrl, errorMsg, hasApiKey, appAssets,
                         appConfig, inFlight>>
          /\ UNCHANGED <<inputVars, prompt, entry, pc, assetCount, pending,
                         encoded, retryVars, remoteVars, pollWaits,
                         imageResponse, thrown, raised, failedAt, handle>>
     ELSE /\ status' = "uploading"
          /\ FreshCall
          /\ UNCHANGED <<videoUrl, errorMsg, hasApiKey, appAssets, appConfig,
                         keyPrompt, inFlight>>
          /\ UNCHANGED inputVars

\* mutation: handleGenerate does not look at hasApiKey
HandleGenerate_keyUnchecked ==
  /\ hasAssets /\ ~isProcessing
  /\ status' = "uploading"
  /\ errorMsg' = <<>>
  /\ videoUrl' = <<>>
  /\ FreshCall
  /\ UNCHANGED <<hasApiKey, appAssets, appConfig, keyPrompt, inFlight>>
  /\ UNCHANGED inputVars

\* mutation: the Generate button is not disabled while processing
HandleGenerate_ungated ==
  /\ hasAssets /\ status # "uploading"
  /\ IF Cardinality(appAssets) = 0
     THEN UNCHANGED vars
     ELSE IF ~hasApiKey
     THEN /\ keyPrompt' = TRUE
          /\ UNCHANGED <<status, videoUrl, errorMsg, hasApiKey, appAssets,
                         appConfig, inFlight>>
          /\ UNCHANGED <<inputVars, prompt, entry, pc, assetCount, pending,
                         encoded, retryVars, remoteVars, pollWaits,
                         imageResponse, thrown, raised, failedAt, handle>>
     ELSE /\ status' = "uploading"
          /\ errorMsg' = <<>>
          /\ videoUrl' = <<>>
          /\ FreshCall
          /\ UNCHANGED <<hasApiKey, appAssets, appConfig, keyPrompt, inFlight>>
          /\ UNCHANGED inputVars

\* the Generate button is clicked (enabled unless !hasAssets || isProcessing):
\* handleGenerate up to setVideoUrl(null); the locals of the call it is about
\* to make are fresh
HandleGenerate ==
  /\ hasAssets /\ ~isProcessing
  /\ IF Cardinality(appAssets) = 0
     THEN UNCHANGED vars
     ELSE IF ~hasApiKey
     THEN /\ keyPrompt' = TRUE
          /\ UNCHANGED <<status, videoUrl, errorMsg, hasApiKey, appAssets,
                         appConfig, inFlight>>
          /\ UNCHANGED <<inputVars, prompt, entry, pc, assetCount, pending,
                         encoded, retryVars, remoteVars, pollWaits,
                         imageResponse, thrown, raised, failedAt, handle>>
     ELSE /\ status' = "uploading"
          /\ errorMsg' = <<>>
          /\ videoUrl' = <<>>
          /\ FreshCall
          /\ UNCHANGED <<hasApiKey, appAssets, appConfig, keyPrompt, inFlight>>
          /\ UNCHANGED inputVars

\* handleGenerate goes on in the same turn: setStatus('generating') and the
\* call of generateFashionVideo(assets, config), whatever config.mode is
Dispatch ==
  /\ status = "uploading"
  /\ status' = "generating"
  /\ inFlight' = inFlight + 1
  /\ assets' = appAssets
  /\ config' = appConfig
  /\ Enter("video", appConfig, orderedFiles(appAssets),
           IF Len(orderedFiles(appAssets)) = 1 THEN orderedFiles(appAssets)
           ELSE referenceFiles(orderedFiles(appAssets)))
  /\ UNCHANGED <<apiKey, videoUrl, errorMsg, hasApiKey, appAssets, appConfig,
                 keyPrompt>>

\* mutation: the catch of handleGenerate never clears hasApiKey
Settle_keepsKey ==
  /\ status = "generating"
  /\ pc \in {"resolved", "rejected"}
  /\ inFlight' = inFlight - 1
  /\ IF pc = "resolved"
     THEN /\ videoUrl' = <<handle>>
          /\ status' = "success"
          /\ UNCHANGED errorMsg
     ELSE /\ errorMsg' = IF thrown.message # <<>> THEN thrown.message
                         ELSE DefaultErrorMsg
          /\ status' = "error"
          /\ UNCHANGED videoUrl
  /\ FreshCall
  /\ assets' = {}
  /\ config' = InitialConfig
  /\ UNCHANGED <<apiKey, hasApiKey, appAssets, appConfig, keyPrompt>>

\* mutation: the catch of handleGenerate reports success too
Settle_alwaysSuccess ==
  /\ status = "generating"
  /\ pc \in {"resolved", "rejected"}
  /\ inFlight' = inFlight - 1
  /\ videoUrl' = <<handle>>
  /\ status' = "success"
  /\ FreshCall
  /\ assets' = {}
  /\ config' = InitialConfig
  /\ UNCHANGED <<apiKey, errorMsg, hasApiKey, appAssets, appConfig, keyPrompt>>

\* the awaited call has settled: the rest of the try block, or the catch;
\* the arguments and the locals of the call are gone
Settle ==
  /\ status = "generating"
  /\ pc \in {"resolved", "rejected"}
  /\ inFlight' = inFlight - 1
  /\ IF pc = "resolved"
     THEN /\ videoUrl' = <<handle>>
          /\ status' = "success"
          /\ UNCHANGED <<errorMsg, hasApiKey>>
     ELSE /\ errorMsg' = IF thrown.message # <<>> THEN thrown.message
                         ELSE DefaultErrorMsg
          /\ status' = "error"
          /\ hasApiKey' = IF Includes(thrown.message, <<"API", "Key">>)
                          THEN FALSE ELSE hasApiKey
          /\ UNCHANGED videoUrl
  /\ FreshCall
  /\ assets' = {}
  /\ config' = InitialConfig
  /\ UNCHANGED <<apiKey, appAssets, appConfig, keyPrompt>>

\* App after mount: the key check of the mount effect has settled
InitApp ==
  /\ apiKey \in {"", "KEY"}
  /\ assets = {}
  /\ config = InitialConfig
  /\ NoCall
  /\ status = "idle"
  /\ videoUrl = <<>>
  /\ errorMsg = <<>>
  /\ hasApiKey \in BOOLEAN
  /\ appAssets = {}
  /\ appConfig = InitialConfig
  /\ keyPrompt = FALSE
  /\ inFlight = 0

\* App calls generateFashionVideo only
NextApp ==
  \/ HandleAssetChange
  \/ UpdateConfig
  \/ HandleKeySelection
  \/ KeyPromptSettles
  \/ HandleGenerate
  \/ Dispatch
  \/ Settle
  \/ Encode
  \/ Backoff
  \/ InvokeGenerateVideos
  \/ Sleep
  \/ Refresh
  \/ Inspect
  \/ InvokeFetchVideo
  \/ Catch

SpecApp == InitApp /\ [][NextApp]_vars

TypeOK ==
  /\ pc \in {"idle", "encode", "invoke", "backoff", "sleep", "refresh", "done",
             "catch", "resolved", "rejected"}
  /\ entry \in {"", "video", "image"}
  /\ rIdx \in 0..DefaultRetries
  /\ nPoll \in 0..MaxPolls

(***************************************************************************)
(* Properties.                                                             *)
(***************************************************************************)
\* invocations of fn made by the retryOperation that runs or ran last
Invocations == IF rFn = "fetchVideo" THEN nFetch ELSE nCreate

\* the first k logged outcomes are transient failures
AllTransient(log, k) == \A j \in 1..k : log[j] = "transient"

\* C1: in retryOperation, k < retries transient failures of fn do not end the
\* retrying, and when invocation k + 1 succeeds retryOperation has returned
\* that success value after exactly k + 1 invocations of fn.
RetryReturnsAfterTransientFailures ==
  rFn # "" =>
    \A k \in 0..(RetriesOf(rFn) - 1) :
      /\ (Len(rLog) = k /\ AllTransient(rLog, k))
           => (rState = "running" /\ Invocations = k)
      /\ (Len(rLog) > k /\ AllTransient(rLog, k) /\ rLog[k + 1] = "ok")
           => /\ rState = "returned"
              /\ Len(rLog) = k + 1
              /\ Invocations = k + 1
              /\ (rFn = "generateVideos" /\ nPoll = 0) => operation = answered
              /\ rFn = "fetchVideo" => pc = "resolved"

\* C1 witness: two transient failures, then success on the third invocation
TwoTransientThenSuccess ==
  /\ rLog = <<"transient", "transient", "ok">>
  /\ rState = "returned"
  /\ Invocations = 3

\* C2: in retryOperation, a non-transient failure of fn is thrown on at once
\* as the same error: no further invocation of fn and no backoff wait follow
\* it; if it is the first invocation, fn has been invoked exactly once.
RetryThrowsFatalAtOnce ==
  (rFn # "" /\ rLog # <<>> /\ rLog[Len(rLog)] \in {"fatal", "network"})
    => /\ rState = "threw"
       /\ pc \in {"catch", "rejected"}
       /\ Invocations = Len(rLog)
       /\ Len(rWaits) = Len(rLog) - 1
       /\ pc = "catch" => thrown = rError

\* C2 witness: the first invocation fails with a non-transient error
FirstInvocationFatal ==
  /\ rLog = <<"fatal">>
  /\ rState = "threw"
  /\ pc = "catch"
  /\ thrown = Err(<<"400", "Bad", "Request">>, 400)
  /\ Invocations = 1

\* every logged outcome but the last is a not-done answer or a transient failure
TolerablePrefix(log) ==
  \A j \in 1..(Len(log) - 1) : log[j] \in {"notdone", "transient"}

\* C3: a poller whose status queries were answered only by not-done
\* Operations and transient failures has not failed, and when the next answer
\* is a done Operation with a result it holds exactly that Operation and goes
\* on to the result.
PollerSurvivesTransientFailures ==
  pollLog # <<>> =>
    /\ (TolerablePrefix(pollLog) /\ pollLog[Len(pollLog)] \in {"notdone", "transient"})
         => (pc \in {"sleep", "refresh"} /\ failedAt = "")
    /\ (TolerablePrefix(pollLog) /\ pollLog[Len(pollLog)] = "done"
        /\ answered.error = <<>> /\ answered.uri # "")
         => (operation = answered /\ failedAt \notin {"poll", "job", "uri"})

\* C4: a status query is only ever fatal to the poller with an error that
\* retryOperation would not retry either.
PollerClassifiesLikeRetryWrapper ==
  (pc = "catch" /\ failedAt = "poll") => ~isRetryable(thrown)

\* the text that makes the outer catch report an expired credential
HasAuthMarker(msg) ==
  \/ Includes(msg, <<"Requested", "entity", "was", "not", "found">>)
  \/ Includes(msg, <<"404">>)

\* C5 as stated: a job that is done with an error payload rejects the call,
\* without a media fetch, with the payload's message.
JobErrorMessageIsPayloadMessage ==
  (pc = "rejected" /\ failedAt = "job")
    => (nFetch = 0 /\ thrown.message = operation.error[1])

\* C5 amended: a job that is done with an error payload rejects the call
\* without a media fetch and without a handle; the message is 'Video
\* generation failed:' followed by the payload's message, or the expired-
\* credential message when the payload's message carries 'Requested entity
\* was not found' or '404'.
JobErrorRejectsWithPrefixedMessage ==
  (operation.done /\ operation.error # <<>>)
    => /\ pc \in {"done", "catch", "rejected"}
       /\ nFetch = 0
       /\ handle = NoHandle
       /\ pc = "rejected"
            => /\ failedAt = "job"
               /\ thrown.message =
                    IF HasAuthMarker(operation.error[1])
                    THEN ApiKeyExpired.message
                    ELSE <<"Video", "generation", "failed:">> \o operation.error[1]

\* C5 witness: a refresh answered done with an error payload, call rejected
JobFailedAfterPolling ==
  /\ pc = "rejected"
  /\ failedAt = "job"
  /\ nPoll >= 1
  /\ pollLog[Len(pollLog)] = "done"
  /\ thrown.message = <<"Video", "generation", "failed:", "Unsafe", "content">>

\* rank of a slot in the canonical priority order
CanonicalRank == [top |-> 1, bottom |-> 2, shoes |-> 3, accessories |-> 4]

\* the slots whose images the last create request carries as reference images
SentSlots ==
  [j \in 1..Len(request.referenceImages) |->
     request.referenceImages[j].imageBytes.bytes]

\* C6: with 2 or more populated slots the video request is the multi-reference
\* one, its reference images are the first min(n, 3) populated slots in
\* canonical order, and its aspect ratio is 16:9 whatever the config says.
MultiReferenceRequest ==
  (entry = "video" /\ nCreate > 0 /\ Cardinality(assets) >= 2)
    => /\ request.model = "veo-3.1-generate-preview"
       /\ request.image = <<>>
       /\ Len(SentSlots) = (IF Cardinality(assets) < 3 THEN Cardinality(assets) ELSE 3)
       /\ \A j \in 1..Len(SentSlots) : SentSlots[j] \in assets
       /\ \A j \in 1..(Len(SentSlots) - 1) :
            CanonicalRank[SentSlots[j]] < CanonicalRank[SentSlots[j + 1]]
       /\ \A s \in assets :
            (\A j \in 1..Len(SentSlots) : SentSlots[j] # s)
              => \A j \in 1..Len(SentSlots) :
                   CanonicalRank[SentSlots[j]] < CanonicalRank[s]
       /\ Cardinality(assets) = 4 => SentSlots = <<"top", "bottom", "shoes">>
       /\ \A j \in 1..Len(SentSlots) :
            request.referenceImages[j].mimeType = "image/png"
       /\ request.aspectRatio = "16:9"

\* C6 witness: four populated slots, portrait ratio requested, request issued
FourAssetsPortraitRequested ==
  /\ entry = "video"
  /\ assets = AssetTypes
  /\ config.aspectRatio = "9:16"
  /\ nCreate > 0
  /\ request.aspectRatio = "16:9"

\* C7: with exactly 1 populated slot the video request is the single-reference
\* (fast) one, carries that slot's image, and its aspect ratio is the config's.
SingleReferenceRequest ==
  (entry = "video" /\ nCreate > 0 /\ Cardinality(assets) = 1)
    => /\ request.model = "veo-3.1-fast-generate-preview"
       /\ request.referenceImages = <<>>
       /\ Len(request.image) = 1
       /\ assets = {request.image[1].imageBytes.bytes}
       /\ request.image[1].mimeType = "image/png"
       /\ request.aspectRatio = config.aspectRatio

\* C7 witness: only the shoes slot populated, portrait ratio sent
OneAssetPortraitSent ==
  /\ entry = "video"
  /\ assets = {"shoes"}
  /\ config.aspectRatio = "9:16"
  /\ nCreate > 0
  /\ request.aspectRatio = "9:16"

\* C8 as stated: a media download answered with any non-2xx status on its
\* first two attempts is attempted a third time, and when that attempt
\* succeeds the call resolves with a handle after exactly 3 fetches.
DownloadRetriesAnyFailedStatus ==
  rFn = "fetchVideo" =>
    /\ (Len(rLog) \in 1..2 /\ \A j \in 1..Len(rLog) : rLog[j] \in {"transient", "fatal"})
         => rState = "running"
    /\ (Len(rLog) >= 3 /\ rLog[1] \in {"transient", "fatal"}
        /\ rLog[2] \in {"transient", "fatal"} /\ rLog[3] = "ok")
         => (pc = "resolved" /\ handle # NoHandle /\ nFetch = 3)

\* C8 amended: a media download answered with status 429, 500 or 503 on its
\* first two attempts is attempted a third time, and when that attempt
\* succeeds the call resolves with a handle on the fetched media after
\* exactly 3 fetches.
DownloadRetriesTransientStatus ==
  rFn = "fetchVideo" =>
    /\ (Len(rLog) \in 1..2 /\ \A j \in 1..Len(rLog) : rLog[j] = "transient")
         => rState = "running"
    /\ (Len(rLog) >= 3 /\ rLog[1] = "transient" /\ rLog[2] = "transient"
        /\ rLog[3] = "ok")
         => /\ pc = "resolved"
            /\ handle = createObjectURL([media |-> "video", bytes |-> answered.uri])
            /\ answered.uri # ""
            /\ nFetch = 3

\* C8 witness: two transient download failures, success on the third attempt
DownloadSucceedsOnThirdAttempt ==
  /\ rFn = "fetchVideo"
  /\ rLog = <<"transient", "transient", "ok">>
  /\ rWaits = <<1000, 2000>>
  /\ pc = "resolved"
  /\ nFetch = 3

\* the call has done nothing observable: no encoding, no remote request
NothingIssued ==
  /\ encoded = <<>>
  /\ nCreate = 0
  /\ nPoll = 0
  /\ nFetch = 0
  /\ handle = NoHandle

\* C9 as stated: generateFashionVideo called with no populated slot rejects
\* with the no-assets error before any encoding or network call, whatever the
\* credential.
NoAssetsRejectsWhateverCredential ==
  (entry = "video" /\ assets = {})
    => (pc = "rejected" /\ thrown = NoAssets /\ NothingIssued)

\* C9 amended: generateFashionVideo called with no populated slot rejects
\* before any encoding or network call: with the no-assets error when a
\* credential is configured, with the missing-API-key error when none is.
NoAssetsRejectsByCredential ==
  (entry = "video" /\ assets = {})
    => /\ pc = "rejected"
       /\ NothingIssued
       /\ thrown = (IF apiKey # "" THEN NoAssets ELSE ApiKeyNotFound)

\* C9 witness: the video entry point rejected for the lack of assets
VideoRejectedForNoAssets ==
  /\ entry = "video"
  /\ assets = {}
  /\ apiKey # ""
  /\ pc = "rejected"
  /\ thrown = NoAssets

\* C10: with no credential configured both entry points reject with the
\* missing-API-key error for any assets and config, and nothing is encoded
\* and no remote call is issued.
NoCredentialRejectsBeforeAnyWork ==
  (entry # "" /\ apiKey = "")
    => /\ pc = "rejected"
       /\ thrown = ApiKeyNotFound
       /\ failedAt = "credential"
       /\ NothingIssued

\* C10 witness: the image entry point called without credential and without
\* assets
ImageRejectedForNoCredential ==
  /\ entry = "image"
  /\ apiKey = ""
  /\ assets = {}
  /\ pc = "rejected"
  /\ thrown = ApiKeyNotFound

\* C11 as stated: in both entry points a failure of a remote call (the create
\* call or a status refresh) whose message carries 'Requested entity was not
\* found' or '404' reaches the caller as the expired-credential error, and
\* every other failure of a remote call reaches the caller as it was thrown.
RemoteAuthSignalIsNormalised ==
  (pc = "rejected" /\ failedAt \in {"create", "poll"})
    => thrown = (IF HasAuthMarker(raised.message) THEN ApiKeyExpired
                 ELSE raised)

\* C12 as stated: a failed job, a failed download and a missing result URI
\* reach the caller of generateFashionVideo as the error that was thrown,
\* whatever its message contains.
JobAndFetchErrorsNeverNormalised ==
  (pc = "rejected" /\ entry = "video" /\ failedAt \in {"job", "uri", "fetch"})
    => thrown = raised

\* C12 amended: a failed job, a failed download and a missing result URI
\* reach the caller of generateFashionVideo as the error that was thrown,
\* unless its message carries 'Requested entity was not found' or '404': then
\* the caller gets the expired-credential error.
JobAndFetchErrorsNormalisedByMarker ==
  (pc = "rejected" /\ entry = "video" /\ failedAt \in {"job", "uri", "fetch"})
    => /\ HasAuthMarker(raised.message) => thrown = ApiKeyExpired
       /\ ~HasAuthMarker(raised.message) => thrown = raised
       /\ failedAt = "uri" => thrown = NoVideoUri
       /\ failedAt = "job" => raised = GenerationFailed(operation.error[1])

\* C12 witness: the download answered 404 and the caller got the
\* expired-credential error
DownloadNotFoundReportedAsExpiredKey ==
  /\ pc = "rejected"
  /\ entry = "video"
  /\ failedAt = "fetch"
  /\ raised = DownloadFailed(404)
  /\ thrown = ApiKeyExpired
  /\ nFetch = 1

RECURSIVE AllParts(_)
\* every part of a response, candidate after candidate, in order
AllParts(candidates) ==
  IF candidates = <<>> THEN <<>>
  ELSE Head(candidates).parts \o AllParts(Tail(candidates))

HasInline(part) == part.inlineData # <<>>

\* the parts of the last generateContent answer that carry an inline payload
InlineParts == SelectSeq(AllParts(imageResponse.candidates), HasInline)

\* C16: once generateContent has answered, generateFashionImage resolves with
\* a handle built from the first inline payload in candidate order and, within
\* a candidate, part order; when no part of any candidate carries one, or
\* there is no candidate, it fails with the 'no image data' error and there is
\* no handle.
ImageResultIsFirstInlinePayload ==
  (entry = "image" /\ rState = "returned") =>
    IF InlineParts # <<>>
    THEN LET first == InlineParts[1].inlineData[1] IN
         /\ pc = "resolved"
         /\ handle = createObjectURL(
              [media |-> IF first.mimeType = "" THEN "image/png"
                         ELSE first.mimeType,
               bytes |-> first.data.bytes])
    ELSE /\ pc \in {"catch", "rejected"}
         /\ thrown = NoImageData
         /\ failedAt = "response"
         /\ handle = NoHandle

\* C16 witness: the first candidate has no parts and the second carries two
\* inline payloads; the handle holds the first of them
ImageFromSecondCandidate ==
  /\ entry = "image"
  /\ pc = "resolved"
  /\ Len(imageResponse.candidates) = 2
  /\ imageResponse.candidates[1].parts = <<>>
  /\ Len(InlineParts) = 2
  /\ handle = createObjectURL([media |-> "image/png", bytes |-> "img1"])

\* the attempts retryOperation is given at the call site of the running work
AttemptsAllowed == IF rFn = "fetchVideo" THEN 3 ELSE 5

\* C18: retryOperation invokes fn at most `retries` times (5 for the create
\* calls, 3 for the download), one invocation at a time; when every attempt
\* failed with a transient error the error of the last attempt is thrown to
\* the caller after exactly `retries` invocations and `retries - 1` waits.
RetryStopsAfterRetriesAttempts ==
  rFn # "" =>
    /\ Invocations <= AttemptsAllowed
    /\ Invocations = Len(rLog)
    /\ pc = "backoff" => rState = "running"
    /\ (Len(rLog) = AttemptsAllowed /\ AllTransient(rLog, AttemptsAllowed))
         => /\ rState = "threw"
            /\ pc \in {"catch", "rejected"}
            /\ raised = rError
            /\ raised \in TransientRemoteErrors
                 \cup {DownloadFailed(s) : s \in TransientStatuses}
            /\ Len(rWaits) = AttemptsAllowed - 1
            /\ Invocations = AttemptsAllowed

\* C18 witness: the create call of the video entry point failed five times
\* with a transient error and the call is rejected after four waits
CreateFailedFiveTimes ==
  /\ rFn = "generateVideos"
  /\ rLog = <<"transient", "transient", "transient", "transient", "transient">>
  /\ Len(rWaits) = 4
  /\ nCreate = 5
  /\ pc = "rejected"

\* the waits of retryOperation at the call site of the running work
BackoffTable ==
  IF rFn = "fetchVideo" THEN <<1000, 2000>> ELSE <<2000, 4000, 8000, 16000>>

\* C19: the wait after the failed attempt with index i is baseDelay * 2^i
\* (2000, 4000, 8000, 16000 for the create calls; 1000, 2000 for the
\* download), the waits are strictly increasing, and attempt i + 1 is invoked
\* only after that wait.
BackoffWaitsAreExponential ==
  rFn # "" =>
    /\ Len(rWaits) <= Len(BackoffTable)
    /\ rWaits = SubSeq(BackoffTable, 1, Len(rWaits))
    /\ \A j \in 1..(Len(rWaits) - 1) : rWaits[j] < rWaits[j + 1]
    /\ pc = "invoke" => Len(rWaits) = Len(rLog)
    /\ Invocations <= Len(rWaits) + 1

\* C19 witness: four waits have elapsed and the fifth attempt of a create
\* call is about to be invoked
FifthAttemptAfterFourWaits ==
  /\ rFn \in {"generateVideos", "generateContent"}
  /\ pc = "invoke"
  /\ rWaits = <<2000, 4000, 8000, 16000>>
  /\ nCreate = 4

\* C20: when a status refresh fails with a non-transient error, the call
\* fails at that tick: no further status query and no media fetch is issued,
\* there is no handle, and generateFashionVideo rejects with an error.
PollFatalFailureEndsPolling ==
  (pollLog # <<>> /\ pollLog[Len(pollLog)] = "fatal")
    => /\ pc \in {"catch", "rejected"}
       /\ failedAt = "poll"
       /\ raised \in FatalRemoteErrors
       /\ thrown # NoError
       /\ nPoll = Len(pollLog)
       /\ nFetch = 0
       /\ handle = NoHandle

\* C20 witness: the second status refresh failed with a non-transient error
\* and the call is rejected
SecondRefreshFatal ==
  /\ pollLog = <<"notdone", "fatal">>
  /\ pc = "rejected"
  /\ failedAt = "poll"
  /\ nPoll = 2

\* the body-type adjective buildCommonPrompt is to use for the call's config
AdjectiveExpected ==
  IF config.bodyType \in DOMAIN BODY_TYPE_PROMPTS
  THEN BODY_TYPE_PROMPTS[config.bodyType]
  ELSE <<"slender">>

StatusStep ==
  /\ status' # status =>
       \/ status \in {"idle", "success", "error"} /\ status' = "uploading"
       \/ status = "uploading" /\ status' = "generating"
       \/ status = "generating" /\ pc = "resolved" /\ status' = "success"
       \/ status = "generating" /\ pc = "rejected" /\ status' = "error"
  /\ status = "uploading" => (status' = "generating" /\ inFlight' = inFlight + 1)
  /\ status' = "uploading" => (status # "generating" /\ inFlight' = 0)
  /\ inFlight' > inFlight => (status = "uploading" /\ status' = "generating")
  /\ inFlight' < inFlight => (status = "generating"
                              /\ status' \in {"success", "error"})

OneGenerationInFlight ==
  /\ inFlight \in {0, 1}
  /\ inFlight = 1 <=> status = "generating"
  /\ inFlight = 1 <=> entry # ""
  /\ status = "uploading" => (pc = "idle" /\ nCreate = 0)
  /\ isProcessing => ~ENABLED HandleGenerate

\* C14 witness: a call is in flight, waiting between two status queries, and
\* the user has changed the assets meanwhile
AssetsChangedWhileGenerating ==
  /\ inFlight = 1
  /\ pc = "sleep"
  /\ nPoll = 1
  /\ appAssets # assets
  /\ appAssets # {}

\* C15 as stated: the call App makes follows config.mode: with 'image' the
\* image entry point is called and no video job is created, with 'video' the
\* video entry point is called and no create-image request is issued.
CallShapeFollowsMode ==
  (inFlight = 1 /\ config.mode \in {"image", "video"})
    => /\ entry = config.mode
       /\ nCreate > 0 =>
            request.model = (IF config.mode = "image"
                             THEN "gemini-3-pro-image-preview"
                             ELSE IF assetCount = 1
                             THEN "veo-3.1-fast-generate-preview"
                             ELSE "veo-3.1-generate-preview")

\* the files generateFashionVideo has to encode before its create call
EncodingsDue == IF assetCount < 3 THEN assetCount ELSE 3

\* what holds of the steps of a generateFashionVideo call in every state
VideoStepsInOrder ==
  entry = "video" =>
    /\ nCreate > 0 => (pending = <<>> /\ Len(encoded) = EncodingsDue)
    /\ nPoll > 0 => (nCreate > 0 /\ (rFn = "generateVideos"
                                      => rState = "returned"))
    /\ nPoll = Len(pollLog)
    /\ Len(pollWaits) \in {nPoll, nPoll + 1}
    /\ \A j \in 1..Len(pollWaits) : pollWaits[j] = 5000
    /\ pc = "refresh" => (Len(pollWaits) = nPoll + 1 /\ ~operation.done)
    /\ operation.done => pc \notin {"sleep", "refresh"}
    /\ nFetch > 0 => (operation.done /\ rFn = "fetchVideo")

\* what holds of every status query and of every step after done
VideoQueryStep ==
  /\ nPoll' # nPoll =>
       /\ entry = "video"
       /\ nPoll' = nPoll + 1
       /\ ~operation.done
       /\ rFn = "generateVideos" /\ rState = "returned"
       /\ Len(pollWaits) = nPoll + 1
       /\ nFetch = 0
  /\ (entry = "video" /\ operation.done) =>
       (nPoll' = nPoll /\ pollWaits' = pollWaits /\ nCreate' = nCreate)
  /\ nFetch' # nFetch => operation.done

\* C21: within one generateFashionVideo call every asset is encoded before
\* the create call, no status query is issued before the create call has
\* returned a not-done Operation, each status query follows its own 5000 ms
\* wait and the completion of the previous query, no status query follows a
\* done Operation, and the media fetch starts only after done.
VideoCallIsSequential == []VideoStepsInOrder /\ [][VideoQueryStep]_vars

\* C21 witness: three assets encoded, two waits and two status queries, the
\* second reporting done, and the media fetched
EncodedPolledTwiceFetched ==
  /\ entry = "video"
  /\ Len(encoded) = 3
  /\ nCreate = 1
  /\ pollWaits = <<5000, 5000>>
  /\ pollLog = <<"notdone", "done">>
  /\ nFetch = 1
  /\ pc = "resolved"

\* C22 as stated: the polling loop of generateFashionVideo is left only when
\* a refreshed Operation reports done or a refresh has failed with a
\* non-transient error; after not-done answers and transient failures the
\* call is still polling.
PollingEndsOnlyOnDoneOrFatal ==
  (entry = "video" /\ nPoll > 0)
    => \/ pc \in {"sleep", "refresh"}
       \/ operation.done /\ pollLog[Len(pollLog)] = "done"
       \/ failedAt = "poll" /\ pollLog[Len(pollLog)] = "fatal"

ErrorStep ==
  status = "error" =>
    /\ status' \in {"error", "uploading"}
    /\ inFlight' = 0 /\ entry' = ""
    /\ status' = "uploading" =>
         /\ hasAssets /\ hasApiKey
         /\ errorMsg' = <<>> /\ videoUrl' = <<>>
         /\ UNCHANGED <<appAssets, appConfig, hasApiKey, keyPrompt>>
    /\ (appAssets' # appAssets \/ appConfig' # appConfig
        \/ hasApiKey' # hasApiKey \/ keyPrompt' # keyPrompt)
         => UNCHANGED <<status, errorMsg, videoUrl>>

ReauthStep ==
  /\ (status = "generating" /\ pc = "rejected" /\ status' = "error") =>
       /\ thrown \in {ApiKeyNotFound, ApiKeyExpired} => hasApiKey' = FALSE
       /\ ~Includes(thrown.message, <<"API", "Key">>) =>
            hasApiKey' = hasApiKey
  /\ ~hasApiKey =>
       /\ UNCHANGED <<status, videoUrl, errorMsg, inFlight>>
       /\ entry' = "" /\ nCreate' = 0
       /\ HandleGenerate => keyPrompt' = TRUE

\* C24: a generation rejected with the missing-credential error or with the
\* normalised expired-credential error sets hasApiKey to false, a rejection
\* whose message has no 'API Key' leaves hasApiKey as it was, and while
\* hasApiKey is false a Generate action opens the key prompt and dispatches
\* no generation.
CredentialFailureForcesReselection ==
  /\ [](~hasApiKey /\ hasAssets /\ ~isProcessing => ENABLED HandleGenerate)
  /\ [][ReauthStep]_vars

\* C24 witness: after a rejected generation whose message names the API Key
\* the flag is false and Generate has opened the key prompt
KeyPromptAfterCredentialError ==
  /\ status = "error"
  /\ Includes(errorMsg, <<"API", "Key">>)
  /\ ~hasApiKey
  /\ keyPrompt
  /\ hasAssets

\* what App shows in each status
UiStateInvariant ==
  /\ status = "success" => (videoUrl # <<>> /\ errorMsg = <<>>)
  /\ status = "error" => (errorMsg # <<>> /\ videoUrl = <<>>)
  /\ status \in {"idle", "uploading", "generating"} =>
       (videoUrl = <<>> /\ errorMsg = <<>>)

\* a settling step shows the propagated message, or the default text
ErrorMessageStep ==
  (status = "generating" /\ pc = "rejected" /\ status' = "error") =>
    errorMsg' = IF thrown.message = <<>> THEN DefaultErrorMsg
                ELSE thrown.message

\* C25: in every state of App, success goes with a result and no message,
\* error with a message (the propagated one, or the default text when the
\* error has none) and no result, and idle, uploading and generating with
\* neither.
UiStateIsConsistent == []UiStateInvariant /\ [][ErrorMessageStep]_vars

\* C25 witness: a rejection without a message is shown with the default text
ErrorShownWithDefaultText ==
  /\ status = "error"
  /\ errorMsg = DefaultErrorMsg
  /\ videoUrl = <<>>

\* a Generate action while a guard of handleGenerate applies
GuardedGenerateStep ==
  (~hasApiKey /\ HandleGenerate) =>
    /\ keyPrompt' = TRUE
    /\ UNCHANGED <<status, videoUrl, errorMsg, hasApiKey, appAssets,
                   appConfig, inFlight, entry, pc, nCreate>>

\* C26 as stated: without a populated slot Generate does nothing; without a
\* selected key Generate only opens the key prompt, and when the prompt has
\* settled hasApiKey is true, whatever happened in it.
GenerateGuardsThenKeySelected ==
  /\ [](~hasAssets => ~ENABLED HandleGenerate)
  /\ [][GuardedGenerateStep]_vars
  /\ [][(keyPrompt /\ ~keyPrompt') => hasApiKey' = TRUE]_vars

\* the key prompt settles
KeyPromptStep ==
  /\ (keyPrompt /\ ~keyPrompt') =>
       /\ hasApiKey' \in {TRUE, hasApiKey}
       /\ UNCHANGED <<status, videoUrl, errorMsg, appAssets, appConfig,
                      inFlight, entry, pc, nCreate>>
  /\ (~hasApiKey /\ hasApiKey') => (keyPrompt /\ ~keyPrompt')
  /\ ~hasApiKey => status' = status

\* C26 amended: without a populated slot Generate does nothing; without a
\* selected key Generate only opens the key prompt, leaving status, videoUrl,
\* errorMsg and hasApiKey as they are and dispatching nothing; hasApiKey
\* becomes true only when a key prompt settles, and a prompt that rejects
\* leaves it false; the settling changes nothing else, so a generation
\* starts only with a later Generate action.
GenerateGuardsLeaveStateUntouched ==
  /\ [](~hasAssets => ~ENABLED HandleGenerate)
  /\ [](~hasApiKey /\ hasAssets /\ ~isProcessing => ENABLED HandleGenerate)
  /\ [][GuardedGenerateStep]_vars
  /\ [][KeyPromptStep]_vars

\* C26 witness: Generate has opened the key prompt in the initial UI state
KeyPromptOpenedByGenerate ==
  /\ status = "idle"
  /\ hasAssets
  /\ ~hasApiKey
  /\ keyPrompt
  /\ videoUrl = <<>> /\ errorMsg = <<>>
  /\ ENABLED KeyPromptSettles

\* the files the entered call encodes, in the order of its encoding loop
FilesToEncode ==
  IF entry = "video" /\ Len(orderedFiles(assets)) > 1
  THEN referenceFiles(orderedFiles(assets))
  ELSE orderedFiles(assets)

\* C27: the assets are encoded one after another in canonical order; when
\* the encoding of one fails the call rejects, the later assets are never
\* encoded and no create request, status query or media fetch is issued.
EncodingFailureRejectsBeforeAnyRequest ==
  /\ assetCount > 0 =>
       /\ Len(encoded) + Len(pending) = Len(FilesToEncode)
       /\ \A i \in 1..Len(encoded) : encoded[i] = Encoding(FilesToEncode[i])
       /\ \A i \in 1..Len(pending) :
            pending[i] = FilesToEncode[Len(encoded) + i]
  /\ failedAt = "encode" =>
       /\ pc \in {"catch", "rejected"}
       /\ raised = ReadError
       /\ pending # <<>>
       /\ nCreate = 0 /\ nPoll = 0 /\ nFetch = 0
       /\ rLog = <<>> /\ pollLog = <<>>

\* C27 witness: the second of three assets could not be read and the call
\* has rejected
SecondOfThreeEncodingsFailed ==
  /\ failedAt = "encode"
  /\ pc = "rejected"
  /\ Len(encoded) = 1
  /\ Len(pending) = 2

\* C28: generateFashionVideo resolves only when the last Operation is done,
\* has no error payload and has a result URI, and a download of that URI was
\* answered with a successful status; a done Operation with neither error
\* payload nor result URI makes the call reject with 'No video URI
\* returned.' and no fetch is issued.
VideoResolvesOnlyWithDownloadedResult ==
  entry = "video" =>
    /\ pc = "resolved" =>
         /\ operation.done
         /\ operation.error = <<>>
         /\ operation.uri # ""
         /\ nFetch > 0
         /\ rFn = "fetchVideo" /\ rState = "returned"
         /\ rLog # <<>> /\ rLog[Len(rLog)] = "ok"
         /\ handle = createObjectURL([media |-> "video",
                                      bytes |-> operation.uri])
    /\ (operation.done /\ operation.error = <<>> /\ operation.uri = "") =>
         /\ nFetch = 0
         /\ pc \in {"done", "catch", "rejected"}
         /\ pc # "done" => (failedAt = "uri" /\ raised = NoVideoUri)
         /\ pc = "rejected" => thrown = NoVideoUri
    /\ handle # NoHandle => pc = "resolved"

\* C28 witness: the job ended after two status queries with neither an error
\* payload nor a result URI, and the call has rejected
DoneWithoutUriRejected ==
  /\ entry = "video"
  /\ pc = "rejected"
  /\ nPoll = 2
  /\ operation.done
  /\ operation.error = <<>>
  /\ operation.uri = ""
  /\ thrown = NoVideoUri

\* C29: whenever a create request has been sent, whichever entry point sent
\* it, its aspect ratio is the one the preview uses for the same assets and
\* config: '16:9' with more than one populated slot, config.aspectRatio with
\* exactly one.
PreviewRatioIsRequestRatio ==
  nCreate > 0 =>
    /\ request.aspectRatio = effectiveAspectRatio(assets, config)
    /\ Cardinality(assets) > 1 => request.aspectRatio = "16:9"
    /\ Cardinality(assets) = 1 => request.aspectRatio = config.aspectRatio

(***************************************************************************)
(* ConfigPanel on its own: every control of the panel, from the initial    *)
(* config of App.                                                          *)
(***************************************************************************)
\* the personas the panel offers, in the order of the array
MODEL_CHARACTERS ==
  << [id |-> "sofia", gender |-> "female"],
     [id |-> "li", gender |-> "female"],
     [id |-> "zara", gender |-> "female"],
     [id |-> "david", gender |-> "male"],
     [id |-> "ken", gender |-> "male"],
     [id |-> "marcus", gender |-> "male"] >>

\* MODEL_CHARACTERS.filter(m => m.gender === config.gender)
availableModels(cfg) ==
  { MODEL_CHARACTERS[i].id : i \in { j \in 1..Len(MODEL_CHARACTERS) :
                                      MODEL_CHARACTERS[j].gender = cfg.gender } }

\* what the controls of the panel pass to updateConfig
PanelChoices(cfg) ==
  {<<"mode", m>> : m \in {"video", "image"}}
  \cup {<<"materialDesc", d>> : d \in MaterialDescs}
  \cup {<<"gender", g>> : g \in Genders}
  \cup {<<"modelId", m>> : m \in availableModels(cfg)}
  \cup {<<"bodyType", b>> : b \in DOMAIN BODY_TYPE_PROMPTS}
  \cup {<<"aspectRatio", r>> : r \in AspectRatios}

\* a control of the panel is operated
PanelUpdate ==
  /\ ~isProcessing
  /\ \E choice \in PanelChoices(appConfig) :
       appConfig' = updateConfig(appConfig, choice[1], choice[2])
  /\ UNCHANGED <<status, videoUrl, errorMsg, hasApiKey, appAssets, keyPrompt,
                 inFlight>>
  /\ UNCHANGED <<inputVars, prompt, entry, pc, assetCount, pending, encoded,
                 retryVars, remoteVars, pollWaits, imageResponse, thrown,
                 raised, failedAt, handle>>

InitConfig ==
  /\ apiKey = "KEY"
  /\ assets = {}
  /\ config = InitialConfig
  /\ NoCall
  /\ AppMounted

NextConfig == PanelUpdate

SpecConfig == InitConfig /\ [][NextConfig]_vars

\* the personas of MODEL_CHARACTERS with the given id
PersonasNamed(id) ==
  { i \in 1..Len(MODEL_CHARACTERS) : MODEL_CHARACTERS[i].id = id }

\* gender and persona of the config go together, and so does the prompt
GenderAndPersonaAgree ==
  /\ appConfig.modelId \in DOMAIN MODEL_DESCRIPTIONS
  /\ PersonasNamed(appConfig.modelId) # {}
  /\ \A i \in PersonasNamed(appConfig.modelId) :
       MODEL_CHARACTERS[i].gender = appConfig.gender
  /\ Includes(MODEL_DESCRIPTIONS[appConfig.modelId],
              <<appConfig.gender, "model">>)
  /\ updateConfig(appConfig, "gender", appConfig.gender) = appConfig
  /\ \A n \in 1..2 :
       /\ Includes(buildCommonPrompt(appConfig, n),
                   <<"Fashion", "content.">>
                   \o MODEL_DESCRIPTIONS[appConfig.modelId] \o <<"with">>)
       /\ ~Includes(buildCommonPrompt(appConfig, n),
                    <<"a", appConfig.gender, "model">>)

\* a step of the panel
PersonaStep ==
  /\ appConfig'.gender # appConfig.gender =>
       /\ \E i \in PersonasNamed(appConfig'.modelId) :
            /\ MODEL_CHARACTERS[i].gender = appConfig'.gender
            /\ \A j \in 1..(i - 1) :
                 MODEL_CHARACTERS[j].gender # appConfig'.gender
       /\ appConfig' = [appConfig EXCEPT !.gender = appConfig'.gender,
                                         !.modelId = appConfig'.modelId]
  /\ appConfig'.gender = appConfig.gender =>
       \/ appConfig'.modelId = appConfig.modelId
       \/ appConfig' = [appConfig EXCEPT !.modelId = appConfig'.modelId]

====
